---- MODULE Spec2Model ----
(***************************************************************************)
(* Regex -> NFA (Thompson's construction) -> DFA (subset construction),   *)
(* as implemented in lexican.py (the "nfa to dfa" part) and re_nfa.py.     *)
(* Characters are one-character strings, Python lists are sequences whose  *)
(* last element is the top of a stack, NFA nodes are addressed by the id   *)
(* that State.__init__ hands out.                                          *)
(***************************************************************************)
EXTENDS Integers, Sequences, FiniteSets, TLC

VARIABLES
    pc,                   \* position in the pipeline of the current compilation
    run,                  \* number of the current compilation in this process
    regex,                \* the regex given to regex_to_nfa
    postfix,              \* result of to_postfix
    err,                  \* exception that ended the compilation, or NoErr
    nodes,                \* State objects created by this compilation, by id
    frags,                \* build_nfa's fragment stack when it returned or raised
    nfa,                  \* the NFA returned by regex_to_nfa
    raisedIn,             \* the function whose statement raised err
    State_id_counter,     \* State._id_counter (class attribute)
    DFAState_id_counter,  \* DFAState._id_counter (class attribute)
    alphabet,             \* alphabet given to nfa_to_dfa, in iteration order
    dfa_objs,             \* DFAState objects created by nfa_to_dfa, by id
    dfa_states,           \* nfa_to_dfa: the dict, as (key, value) in insertion order
    unmarked,             \* nfa_to_dfa: the worklist (ids of DFA states)
    dfa_state,            \* nfa_to_dfa: id of the popped DFA state
    symIdx,               \* nfa_to_dfa: position of the for loop in alphabet
    pushLog               \* history: ids appended to unmarked, in order

vars == <<pc, run, regex, postfix, err, nodes, frags, nfa, raisedIn,
          State_id_counter, DFAState_id_counter, alphabet, dfa_objs,
          dfa_states,
          unmarked, dfa_state, symIdx, pushLog>>

----------------------------------------------------------------------------
\* Bounds of the model

MaxLen == 3        \* regexes of every length up to MaxLen are compiled
MaxStr == 5        \* input strings of every length up to MaxStr are run
MaxRuns == 2       \* compilations per process
MaxLenAgain == 1   \* later compilations: regexes of every length up to this

\* The characters regexes are made of: two literals, the four characters of
\* the grammar, and two characters outside it.
Literals == {"a", "b"}
Chars == Literals \cup {"(", ")", "|", "*", " ", "."}

\* Longer regexes compiled besides those up to MaxLen
Examples ==
    { <<"(", "a", "|", "b", ")", "*", "a", "b", "b">>,
      <<"(", "a", "|", "b">>,
      <<"a", "*", "(", "b", ")">>,
      <<"(", "a", ")", "*", "(", "b", ")">>,
      <<"a", "|", "b", "*", "a">>,
      <<"(", "a", "b", ")", "*">>,
      <<"a", "b", "|", "b", "a">>,
      <<"a", " ", "b", "*">>,
      <<"a", "|", "|", "b">>,
      <<"(", "a", "*", "b", "*", ")", "*">> }

RECURSIVE SeqsUpTo(_, _)
SeqsUpTo(S, n) ==
    IF n = 0 THEN {<<>>}
    ELSE LET shorter == SeqsUpTo(S, n - 1)
         IN  shorter \cup {Append(s, c) : s \in {t \in shorter : Len(t) = n - 1}, c \in S}

Regexes == SeqsUpTo(Chars, MaxLen) \cup Examples

\* the regexes of the compilations after the first
RegexesAgain == SeqsUpTo(Chars, MaxLenAgain) \cup Examples

NoErr == "none"
IndexError == "IndexError"     \* list.pop() on an empty list
None == "None"

Last(s) == s[Len(s)]
Range(q) == {q[i] : i \in 1..Len(q)}
Front(s) == SubSeq(s, 1, Len(s) - 1)

----------------------------------------------------------------------------
\* str.isalnum on the characters of the model
isalnum(c) == c \in Literals

\* mutant: concatenation and alternation trade precedences
precedence_swapped(c) ==
    CASE c = "*" -> 3
      [] c = "." -> 1
      [] c = "|" -> 2
      [] OTHER -> 0

\* precedence.get(c, 0)
precedence(c) ==
    CASE c = "*" -> 3
      [] c = "." -> 2
      [] c = "|" -> 1
      [] OTHER -> 0

\* while stack and precedence.get(stack[-1], 0) >= p: output.append(stack.pop())
RECURSIVE Drain(_, _)
Drain(st, p) ==
    IF Len(st.stack) > 0 /\ precedence(Last(st.stack)) >= p
    THEN Drain([st EXCEPT !.output = Append(@, Last(st.stack)),
                          !.stack = Front(@)], p)
    ELSE st

\* while stack and stack[-1] != '(': output.append(stack.pop())
RECURSIVE DrainToParen(_)
DrainToParen(st) ==
    IF Len(st.stack) > 0 /\ Last(st.stack) # "("
    THEN DrainToParen([st EXCEPT !.output = Append(@, Last(st.stack)),
                                 !.stack = Front(@)])
    ELSE st

\* prev and (prev.isalnum() or prev == ')' or prev == '*')
NeedsConcat(prev) ==
    prev # None /\ (isalnum(prev) \/ prev = ")" \/ prev = "*")

\* the implicit concatenation: drain, then stack.append('.')
InsertConcat(st) ==
    LET d == Drain(st, precedence("."))
    IN  [d EXCEPT !.stack = Append(@, ".")]

\* the stack.pop() that discards the '(' of a group
PopParen(st) ==
    IF Len(st.stack) = 0 THEN [st EXCEPT !.err = IndexError]
    ELSE [st EXCEPT !.stack = Front(@)]

\* one iteration of to_postfix's for loop
PostfixStep(st, c) ==
    LET s1 ==
        IF isalnum(c) THEN
            LET t == IF NeedsConcat(st.prev) THEN InsertConcat(st) ELSE st
            IN  [t EXCEPT !.output = Append(@, c)]
        ELSE IF c = "(" THEN
            LET t == IF NeedsConcat(st.prev) THEN InsertConcat(st) ELSE st
            IN  [t EXCEPT !.stack = Append(@, c)]
        ELSE IF c = ")" THEN
            PopParen(DrainToParen(st))
        ELSE IF precedence(c) > 0 THEN
            LET t == Drain(st, precedence(c))
            IN  [t EXCEPT !.stack = Append(@, c)]
        ELSE st
    IN  [s1 EXCEPT !.prev = c]

RECURSIVE PostfixLoop(_, _, _)
PostfixLoop(st, r, i) ==
    IF i > Len(r) \/ st.err # NoErr THEN st
    ELSE PostfixLoop(PostfixStep(st, r[i]), r, i + 1)

\* while stack: output.append(stack.pop())
RECURSIVE Flush(_)
Flush(st) ==
    IF Len(st.stack) = 0 THEN st
    ELSE Flush([st EXCEPT !.output = Append(@, Last(st.stack)),
                          !.stack = Front(@)])

\* to_postfix(regex): [output |-> the postfix sequence, err |-> the exception]
to_postfix(r) ==
    LET st == PostfixLoop([output |-> <<>>, stack |-> <<>>, prev |-> None,
                           err |-> NoErr], r, 1)
    IN  IF st.err # NoErr THEN st ELSE Flush(st)

----------------------------------------------------------------------------
\* State(): a node with no edges; its id is the class counter, which it advances
NewNode == [edges |-> <<>>, epsilon |-> <<>>]

State(b) ==
    [b EXCEPT !.nodes = (b.counter :> NewNode) @@ b.nodes,
              !.counter = b.counter + 1]

\* NFA(start, accept)
NFA(start, accept) == [start |-> start, accept |-> accept]

\* n.epsilon.extend(targets)
AddEpsilon(ns, n, targets) ==
    [ns EXCEPT ![n].epsilon = @ \o targets]

\* c.isalnum(): two new states, s1.edges[c] = [s2], push NFA(s1, s2)
BuildLiteral(b, c) ==
    LET s1 == b.counter
        s2 == b.counter + 1
        b2 == State(State(b))
    IN  [b2 EXCEPT !.nodes[s1].edges = (c :> <<s2>>),
                   !.stack = Append(@, NFA(s1, s2))]

\* nfa2, nfa1 = stack.pop(), stack.pop() on a stack of fewer than two
\* fragments: the first pop takes the fragment there is, the pop that finds
\* the stack empty raises
PopTwoRaises(b) == [b EXCEPT !.stack = <<>>, !.err = IndexError]

\* c == '.': nfa2, nfa1 = stack.pop(), stack.pop(); epsilon from nfa1.accept
\* to nfa2.start
BuildConcat(b) ==
    IF Len(b.stack) < 2 THEN PopTwoRaises(b)
    ELSE LET nfa2 == b.stack[Len(b.stack)]
             nfa1 == b.stack[Len(b.stack) - 1]
             rest == SubSeq(b.stack, 1, Len(b.stack) - 2)
         IN  [b EXCEPT !.nodes = AddEpsilon(@, nfa1.accept, <<nfa2.start>>),
                       !.stack = Append(rest, NFA(nfa1.start, nfa2.accept))]

\* c == '|': new start with epsilon to both starts, new accept reached by
\* epsilon from both accepts
BuildUnion(b) ==
    IF Len(b.stack) < 2 THEN PopTwoRaises(b)
    ELSE LET nfa2 == b.stack[Len(b.stack)]
             nfa1 == b.stack[Len(b.stack) - 1]
             rest == SubSeq(b.stack, 1, Len(b.stack) - 2)
             s == b.counter
             a == b.counter + 1
             b2 == State(State(b))
             n1 == AddEpsilon(b2.nodes, s, <<nfa1.start, nfa2.start>>)
             n2 == AddEpsilon(n1, nfa1.accept, <<a>>)
             n3 == AddEpsilon(n2, nfa2.accept, <<a>>)
         IN  [b2 EXCEPT !.nodes = n3, !.stack = Append(rest, NFA(s, a))]

\* c == '*': new start with epsilon to the fragment's start and to the new
\* accept; the fragment's accept gets epsilon back to its start and to the
\* new accept
BuildStar(b) ==
    IF Len(b.stack) < 1 THEN [b EXCEPT !.err = IndexError]
    ELSE LET nfa1 == b.stack[Len(b.stack)]
             rest == Front(b.stack)
             s == b.counter
             a == b.counter + 1
             b2 == State(State(b))
             n1 == AddEpsilon(b2.nodes, s, <<nfa1.start, a>>)
             n2 == AddEpsilon(n1, nfa1.accept, <<nfa1.start, a>>)
         IN  [b2 EXCEPT !.nodes = n2, !.stack = Append(rest, NFA(s, a))]

\* one iteration of build_nfa's for loop; a token that is none of the four
\* kinds falls through every branch
BuildStep(b, c) ==
    IF isalnum(c) THEN BuildLiteral(b, c)
    ELSE IF c = "." THEN BuildConcat(b)
    ELSE IF c = "|" THEN BuildUnion(b)
    ELSE IF c = "*" THEN BuildStar(b)
    ELSE b

RECURSIVE BuildLoop(_, _, _)
BuildLoop(b, p, i) ==
    IF i > Len(p) \/ b.err # NoErr THEN b
    ELSE BuildLoop(BuildStep(b, p[i]), p, i + 1)

\* return stack.pop(): the top fragment, whatever else is on the stack
BuildReturn(b) ==
    IF b.err # NoErr THEN b
    ELSE IF Len(b.stack) = 0 THEN [b EXCEPT !.err = IndexError]
    ELSE [b EXCEPT !.result = Last(b.stack)]

\* build_nfa(postfix), with State._id_counter at `counter` when it starts.
\* stack is the fragment stack as the last token left it.
build_nfa(p, counter) ==
    BuildReturn(BuildLoop([nodes |-> <<>>, stack |-> <<>>, counter |-> counter,
                           err |-> NoErr, result |-> NFA(-1, -1)], p, 1))

----------------------------------------------------------------------------
\* list(states): the lists the elements of a set can be put in; which one
\* the interpreter builds depends on the set's hash table
RECURSIVE list(_)
list(S) ==
    IF S = {} THEN {<<>>}
    ELSE UNION { {<<x>> \o l : l \in list(S \ {x})} : x \in S }

\* for eps in state.epsilon: if eps not in closure: closure.add(eps);
\* stack.append(eps)
RECURSIVE ClosureFor(_, _, _)
ClosureFor(eps, i, w) ==
    IF i > Len(eps) THEN w
    ELSE IF eps[i] \notin w.closure
         THEN ClosureFor(eps, i + 1, [closure |-> w.closure \cup {eps[i]},
                                      stack |-> Append(w.stack, eps[i])])
         ELSE ClosureFor(eps, i + 1, w)

\* while stack: state = stack.pop(); ...
RECURSIVE ClosureWhile(_, _)
ClosureWhile(ns, w) ==
    IF Len(w.stack) = 0 THEN w.closure
    ELSE ClosureWhile(ns, ClosureFor(ns[Last(w.stack)].epsilon, 1,
                                     [w EXCEPT !.stack = Front(@)]))

\* mutant: the states found are added to the closure but never pushed
epsilon_closure_shallow(ns, states, stack) ==
    states \cup UNION { {ns[s].epsilon[i] : i \in 1..Len(ns[s].epsilon)} : s \in states }

\* epsilon_closure(states) over the nodes ns, when list(states) gave stack
epsilon_closure(ns, states, stack) ==
    ClosureWhile(ns, [closure |-> states, stack |-> stack])

\* move(states, symbol)
move(ns, states, symbol) ==
    UNION { {ns[s].edges[symbol][i] : i \in 1..Len(ns[s].edges[symbol])} :
            s \in {t \in states : symbol \in DOMAIN ns[t].edges} }

\* extract_alphabet(regex)
extract_alphabet(r) == {r[i] : i \in {j \in 1..Len(r) : isalnum(r[j])}}

\* the alphabets nfa_to_dfa is called with
Alphabets == SUBSET Literals

\* the orders in which a for loop can iterate over the set S
Orders(S) ==
    {o \in [1..Cardinality(S) -> S] : \A i, j \in DOMAIN o : i # j => o[i] # o[j]}

\* DFAState(nfa_states, is_accept), without its id
DFAState(nfa_states, is_accept) ==
    [nfa_states |-> nfa_states, transitions |-> <<>>, is_accept |-> is_accept]

\* nfa.accept in <set of nodes>
IsAccept(accept, subset) == accept \in subset

\* mutant: the membership test always reports a new subset
NotIn_always(d, key) == TRUE

\* key not in dfa_states
NotIn(d, key) == \A i \in 1..Len(d) : d[i].key # key

\* mutant: the lookup returns the first DFA state registered
Lookup_first(d, key) == d[1].value

\* dfa_states[key]
Lookup(d, key) == d[CHOOSE i \in 1..Len(d) : d[i].key = key].value

\* dfa_states[key] = value: a new key goes last, an old key keeps its place
Store(d, key, value) ==
    IF NotIn(d, key) THEN Append(d, [key |-> key, value |-> value])
    ELSE [i \in 1..Len(d) |-> IF d[i].key = key
                              THEN [key |-> key, value |-> value] ELSE d[i]]

\* mutant: the popped state stays on the worklist
Popped_nothing(u) == u

\* unmarked.pop(): what stays on the worklist
Popped(u) == Front(u)

----------------------------------------------------------------------------
Init ==
    /\ pc = "regex"
    /\ run = 1
    /\ regex \in Regexes
    /\ postfix = <<>>
    /\ err = NoErr
    /\ nodes = <<>>
    /\ frags = <<>>
    /\ nfa = NFA(-1, -1)
    /\ raisedIn = None
    /\ State_id_counter = 0
    /\ DFAState_id_counter = 0
    /\ alphabet = <<>>
    /\ dfa_objs = <<>>
    /\ dfa_states = <<>>
    /\ unmarked = <<>>
    /\ dfa_state = -1
    /\ symIdx = 0
    /\ pushLog = <<>>

dfaVars == <<alphabet, dfa_objs, dfa_states, unmarked, dfa_state, symIdx,
             pushLog, DFAState_id_counter>>

\* regex_to_nfa, first half: postfix = to_postfix(regex)
ToPostfix ==
    /\ pc = "regex"
    /\ LET r == to_postfix(regex)
       IN  /\ err' = r.err
           /\ postfix' = IF r.err = NoErr THEN r.output ELSE <<>>
           /\ raisedIn' = IF r.err = NoErr THEN None ELSE "to_postfix"
           /\ pc' = IF r.err = NoErr THEN "postfix" ELSE "error"
    /\ UNCHANGED <<run, regex, nodes, frags, nfa, State_id_counter>>
    /\ UNCHANGED dfaVars

\* regex_to_nfa, second half: return build_nfa(postfix)
BuildNfa ==
    /\ pc = "postfix"
    /\ LET b == build_nfa(postfix, State_id_counter)
       IN  /\ err' = b.err
           /\ nodes' = b.nodes
           /\ frags' = b.stack
           /\ State_id_counter' = b.counter
           /\ nfa' = b.result
           /\ raisedIn' = IF b.err = NoErr THEN None ELSE "build_nfa"
           /\ pc' = IF b.err = NoErr THEN "nfa" ELSE "error"
    /\ UNCHANGED <<run, regex, postfix>>
    /\ UNCHANGED dfaVars

\* nfa_to_dfa(nfa, alphabet) up to its while loop; the main program calls it
\* with extract_alphabet(regex), one of the alphabets
StartDfa ==
    /\ pc = "nfa"
    /\ \E A \in Alphabets : \E order \in Orders(A) : alphabet' = order
    /\ \E stack \in list({nfa.start}) :
       LET start_closure == epsilon_closure(nodes, {nfa.start}, stack)
           id == DFAState_id_counter
       IN  /\ dfa_objs' = (id :> DFAState(start_closure,
                                          IsAccept(nfa.accept, start_closure)))
           /\ dfa_states' = <<[key |-> start_closure, value |-> id]>>
           /\ unmarked' = <<id>>
           /\ pushLog' = <<id>>
           /\ DFAState_id_counter' = id + 1
    /\ pc' = "loop"
    /\ UNCHANGED <<run, regex, postfix, err, nodes, frags, nfa, raisedIn,
                   State_id_counter, dfa_state, symIdx>>

\* while unmarked: dfa_state = unmarked.pop()
DfaPop ==
    /\ pc = "loop"
    /\ Len(unmarked) > 0
    /\ dfa_state' = Last(unmarked)
    /\ unmarked' = Popped(unmarked)
    /\ symIdx' = 1
    /\ pc' = IF Len(alphabet) = 0 THEN "loop" ELSE "for"
    /\ UNCHANGED <<run, regex, postfix, err, nodes, frags, nfa, raisedIn,
                   State_id_counter, DFAState_id_counter, alphabet, dfa_objs,
                   dfa_states, pushLog>>

\* one iteration of: for symbol in alphabet
DfaSymbol ==
    /\ pc = "for"
    /\ \E stack \in list(move(nodes, dfa_objs[dfa_state].nfa_states,
                               alphabet[symIdx])) :
       LET symbol == alphabet[symIdx]
           moved == move(nodes, dfa_objs[dfa_state].nfa_states, symbol)
           next_states == epsilon_closure(nodes, moved, stack)
           id == DFAState_id_counter
       IN  IF next_states = {}
           THEN UNCHANGED <<dfa_objs, dfa_states, unmarked, pushLog,
                            DFAState_id_counter>>
           ELSE IF NotIn(dfa_states, next_states)
           THEN /\ dfa_states' = Store(dfa_states, next_states, id)
                /\ dfa_objs' =
                     [((id :> DFAState(next_states,
                                       IsAccept(nfa.accept, next_states)))
                       @@ dfa_objs)
                      EXCEPT ![dfa_state].transitions = (symbol :> id) @@ @]
                /\ unmarked' = Append(unmarked, id)
                /\ pushLog' = Append(pushLog, id)
                /\ DFAState_id_counter' = id + 1
           ELSE /\ dfa_objs' =
                     [dfa_objs EXCEPT ![dfa_state].transitions =
                        (symbol :> Lookup(dfa_states, next_states)) @@ @]
                /\ UNCHANGED <<dfa_states, unmarked, pushLog,
                               DFAState_id_counter>>
    /\ IF symIdx = Len(alphabet)
       THEN pc' = "loop" /\ symIdx' = symIdx
       ELSE pc' = "for" /\ symIdx' = symIdx + 1
    /\ UNCHANGED <<run, regex, postfix, err, nodes, frags, nfa, raisedIn,
                   State_id_counter, alphabet, dfa_state>>

\* the while loop ends: return list(dfa_states.values())
DfaReturn ==
    /\ pc = "loop"
    /\ Len(unmarked) = 0
    /\ pc' = "done"
    /\ UNCHANGED <<run, regex, postfix, err, nodes, frags, nfa, raisedIn,
                   State_id_counter>>
    /\ UNCHANGED dfaVars

\* the process compiles another regex; only the class counters carry over
Recompile ==
    /\ pc \in {"done", "error"}
    /\ run < MaxRuns
    /\ run' = run + 1
    /\ regex' \in RegexesAgain
    /\ pc' = "regex"
    /\ postfix' = <<>>
    /\ err' = NoErr
    /\ nodes' = <<>>
    /\ frags' = <<>>
    /\ nfa' = NFA(-1, -1)
    /\ raisedIn' = None
    /\ alphabet' = <<>>
    /\ dfa_objs' = <<>>
    /\ dfa_states' = <<>>
    /\ unmarked' = <<>>
    /\ dfa_state' = -1
    /\ symIdx' = 0
    /\ pushLog' = <<>>
    /\ UNCHANGED <<State_id_counter, DFAState_id_counter>>

Next ==
    \/ ToPostfix
    \/ BuildNfa
    \/ StartDfa
    \/ DfaPop
    \/ DfaSymbol
    \/ DfaReturn
    \/ Recompile

Spec == Init /\ [][Next]_vars

----------------------------------------------------------------------------
\* What the automata accept, stated on the graphs themselves

\* nodes reachable from S by zero or more epsilon edges
RECURSIVE EpsReach(_)
EpsReach(S) ==
    LET T == S \cup UNION {Range(nodes[n].epsilon) : n \in S}
    IN  IF T = S THEN S ELSE EpsReach(T)

\* nodes reachable from S by one edge labelled x
SymReach(S, x) ==
    {t \in DOMAIN nodes :
        \E n \in S : x \in DOMAIN nodes[n].edges /\ t \in Range(nodes[n].edges[x])}

\* nodes in which a path from S spelling s[i..] can end
RECURSIVE NfaRun(_, _, _)
NfaRun(S, s, i) ==
    IF i > Len(s) THEN S
    ELSE NfaRun(EpsReach(SymReach(S, s[i])), s, i + 1)

NFAAccepts(s) == nfa.accept \in NfaRun(EpsReach({nfa.start}), s, 1)

\* the recognition driver: follow transitions, reject on a missing one
RECURSIVE DfaRun(_, _, _)
DfaRun(d, s, i) ==
    IF i > Len(s) THEN dfa_objs[d].is_accept
    ELSE IF s[i] \in DOMAIN dfa_objs[d].transitions
         THEN DfaRun(dfa_objs[d].transitions[s[i]], s, i + 1)
         ELSE FALSE

\* the returned DFA states whose subset is the closure of the NFA's start
DfaStarts ==
    {dfa_states[k].value : k \in {j \in 1..Len(dfa_states) :
                                     dfa_states[j].key = EpsReach({nfa.start})}}

DFAAccepts(s) == \E d \in DfaStarts : DfaRun(d, s, 1)

\* the strings the automata are run on: those over the alphabet given to
\* nfa_to_dfa
Inputs == SeqsUpTo(Range(alphabet), MaxStr)

\* the regex has a star, so that its NFA has an epsilon cycle
HasStar == \E i \in 1..Len(regex) : regex[i] = "*"

\* C1: when nfa_to_dfa has returned, the DFA accepts a string over the
\* alphabet exactly when the NFA accepts it.
C1_DfaEquivalentToNfa ==
    pc = "done" => \A s \in Inputs : DFAAccepts(s) <=> NFAAccepts(s)

C1_Witness ==
    /\ pc = "done"
    /\ HasStar
    /\ Len(dfa_states) >= 3
    /\ \E s \in Inputs : Len(s) >= 3 /\ DFAAccepts(s) /\ NFAAccepts(s)
    /\ \E s \in Inputs : ~DFAAccepts(s) /\ ~NFAAccepts(s)

----------------------------------------------------------------------------
\* C7: at every point of nfa_to_dfa no two DFA states created have the same
\* set of NFA nodes, and every DFA state created is registered in the table
\* under its own subset (and the table has one entry per subset).
C7_SubsetTableInjective ==
    /\ \A i, j \in DOMAIN dfa_objs :
          i # j => dfa_objs[i].nfa_states # dfa_objs[j].nfa_states
    /\ \A i \in DOMAIN dfa_objs :
          \E k \in 1..Len(dfa_states) :
             dfa_states[k] = [key |-> dfa_objs[i].nfa_states, value |-> i]
    /\ \A k, l \in 1..Len(dfa_states) :
          k # l => dfa_states[k].key # dfa_states[l].key

\* a subset computed a second time was found in the table
C7_Witness ==
    /\ pc = "for"
    /\ Len(dfa_states) >= 3
    /\ \E i \in DOMAIN dfa_objs : \E x \in DOMAIN dfa_objs[i].transitions :
          dfa_objs[i].transitions[x] <= i

----------------------------------------------------------------------------
RECURSIVE Pow2(_)
Pow2(n) == IF n = 0 THEN 1 ELSE 2 * Pow2(n - 1)

\* DFA states popped from the worklist so far
PoppedCount == Cardinality(DOMAIN dfa_objs) - Len(unmarked)

\* what nfa_to_dfa still has to do: the subsets not yet popped, then the
\* symbols left in the for loop
Remaining ==
    (Pow2(Cardinality(DOMAIN nodes)) - PoppedCount) * (Len(alphabet) + 3)
    + (CASE pc = "loop" -> 1
         [] pc = "for" -> Len(alphabet) - symIdx + 2
         [] OTHER -> 0)

PushedOnce ==
    /\ \A i, j \in 1..Len(pushLog) : i # j => pushLog[i] # pushLog[j]
    /\ Range(pushLog) = DOMAIN dfa_objs
    /\ Range(unmarked) \subseteq Range(pushLog)
    /\ Cardinality(DOMAIN dfa_objs) <= Pow2(Cardinality(DOMAIN nodes))
    /\ pc = "done" => unmarked = <<>>

\* C8: nfa_to_dfa terminates: every DFA state is pushed on the worklist
\* exactly once, the number of DFA states never exceeds 2^(number of NFA
\* states), and every step of nfa_to_dfa lowers Remaining, a natural number,
\* so the worklist empties and nfa_to_dfa returns.
C8_Terminates ==
    [][/\ PushedOnce /\ PushedOnce'
       /\ pc \in {"loop", "for"} =>
             /\ pc' \in {"loop", "for", "done"}
             /\ Remaining' < Remaining
             /\ Remaining' >= 0]_vars

\* the construction has returned for an NFA with an epsilon cycle
C8_Witness ==
    /\ pc = "done"
    /\ HasStar
    /\ Len(pushLog) >= 3
    /\ \E n \in DOMAIN nodes : n \in EpsReach(Range(nodes[n].epsilon))

----------------------------------------------------------------------------
\* DFA states reachable from those in D by recorded transitions
RECURSIVE DfaReach(_)
DfaReach(D) ==
    LET T == D \cup UNION { {dfa_objs[d].transitions[x] :
                                x \in DOMAIN dfa_objs[d].transitions} : d \in D }
    IN  IF T = D THEN D ELSE DfaReach(T)

Returned == {dfa_states[k].value : k \in 1..Len(dfa_states)}

\* C10: in the list returned by nfa_to_dfa the first element is the start
\* state, every other element is reachable from it by recorded transitions,
\* and a state has a transition on an alphabet symbol x exactly when the
\* closure of the move on x is non-empty, to the returned state of that subset.
C10_ReturnedDfaShape ==
    pc = "done" =>
      /\ dfa_objs[dfa_states[1].value].nfa_states = EpsReach({nfa.start})
      /\ Returned \subseteq DfaReach({dfa_states[1].value})
      /\ \A d \in Returned :
            /\ DOMAIN dfa_objs[d].transitions \subseteq Range(alphabet)
            /\ \A x \in Range(alphabet) :
                  LET target == EpsReach(SymReach(dfa_objs[d].nfa_states, x))
                  IN  /\ x \in DOMAIN dfa_objs[d].transitions <=> target # {}
                      /\ target # {} =>
                            /\ dfa_objs[d].transitions[x] \in Returned
                            /\ dfa_objs[dfa_objs[d].transitions[x]].nfa_states = target

\* a DFA of several states, one of them without a transition on some symbol
C10_Witness ==
    /\ pc = "done"
    /\ Len(dfa_states) >= 3
    /\ \E d \in Returned : \E x, y \in Range(alphabet) :
          /\ x \in DOMAIN dfa_objs[d].transitions
          /\ y \notin DOMAIN dfa_objs[d].transitions

----------------------------------------------------------------------------
\* The input grammar and what a regex of it matches:
\*   expr ::= term ('|' term)*     term ::= factor factor*
\*   factor ::= atom '*'*          atom ::= literal | '(' expr ')'
\* A language is the set of its strings of length up to MaxStr.

LangConcat(A, B) == {u \in {s \o t : s \in A, t \in B} : Len(u) <= MaxStr}

RECURSIVE LangStar(_, _)
LangStar(A, acc) ==
    LET more == acc \cup LangConcat(acc, A)
    IN  IF more = acc THEN acc ELSE LangStar(A, more)

Fail == [ok |-> FALSE, pos |-> 0, lang |-> {}]
Parsed(pos, lang) == [ok |-> TRUE, pos |-> pos, lang |-> lang]

RECURSIVE ParseExpr(_, _)
RECURSIVE ParseExprRest(_, _)
RECURSIVE ParseTerm(_, _)
RECURSIVE ParseTermRest(_, _)
RECURSIVE ParseStars(_, _)
RECURSIVE ParseAtom(_, _)

ParseAtom(r, i) ==
    IF i > Len(r) THEN Fail
    ELSE IF r[i] \in Literals THEN Parsed(i + 1, {<<r[i]>>})
    ELSE IF r[i] = "("
         THEN LET e == ParseExpr(r, i + 1)
              IN  IF e.ok /\ e.pos <= Len(r) /\ r[e.pos] = ")"
                  THEN Parsed(e.pos + 1, e.lang) ELSE Fail
    ELSE Fail

ParseStars(r, f) ==
    IF f.ok /\ f.pos <= Len(r) /\ r[f.pos] = "*"
    THEN ParseStars(r, Parsed(f.pos + 1, LangStar(f.lang, {<<>>})))
    ELSE f

ParseTermRest(r, t) ==
    IF t.ok /\ t.pos <= Len(r) /\ (r[t.pos] \in Literals \/ r[t.pos] = "(")
    THEN LET f == ParseStars(r, ParseAtom(r, t.pos))
         IN  IF f.ok THEN ParseTermRest(r, Parsed(f.pos, LangConcat(t.lang, f.lang)))
             ELSE Fail
    ELSE t

ParseTerm(r, i) == ParseTermRest(r, ParseStars(r, ParseAtom(r, i)))

ParseExprRest(r, e) ==
    IF e.ok /\ e.pos <= Len(r) /\ r[e.pos] = "|"
    THEN LET t == ParseTerm(r, e.pos + 1)
         IN  IF t.ok THEN ParseExprRest(r, Parsed(t.pos, e.lang \cup t.lang))
             ELSE Fail
    ELSE e

ParseExpr(r, i) == ParseExprRest(r, ParseTerm(r, i))

Parse(r) ==
    LET e == ParseExpr(r, 1)
    IN  IF e.ok /\ e.pos = Len(r) + 1 THEN e ELSE Fail

WellFormed(r) == Parse(r).ok

AbbExample == <<"(", "a", "|", "b", ")", "*", "a", "b", "b">>

\* C2: a well-formed regex compiles, and its DFA accepts a string over the
\* regex's alphabet exactly when the string matches the regex with
\* precedence * > concatenation > |; (a|b)*abb accepts abb, aabb, babb, ababb
\* and rejects ab, aab and the empty string.
C2_DfaMatchesRegex ==
    (pc \in {"error", "done"} /\ WellFormed(regex)) =>
      /\ pc # "error"
      /\ (pc = "done" /\ Range(alphabet) = extract_alphabet(regex)) =>
            /\ LET lang == Parse(regex).lang
               IN  \A s \in Inputs : DFAAccepts(s) <=> s \in lang
            /\ regex = AbbExample =>
                  /\ \A s \in { <<"a", "b", "b">>, <<"a", "a", "b", "b">>,
                                <<"b", "a", "b", "b">>,
                                <<"a", "b", "a", "b", "b">> } : DFAAccepts(s)
                  /\ \A s \in { <<"a", "b">>, <<"a", "a", "b">>, <<>> } :
                        ~DFAAccepts(s)

C2_Witness ==
    /\ pc = "done"
    /\ Range(alphabet) = extract_alphabet(regex)
    /\ regex = AbbExample
    /\ WellFormed(regex)
    /\ DFAAccepts(<<"a", "b", "a", "b", "b">>)
    /\ ~DFAAccepts(<<"a", "a", "b">>)

----------------------------------------------------------------------------
\* regex_to_nfa has returned an NFA
NfaReturned == pc \in {"nfa", "loop", "for", "done"}

\* a ')' with no '(' open before it, or a '(' still open at the end
RECURSIVE ParenScan(_, _, _)
ParenScan(r, i, depth) ==
    IF i > Len(r) THEN depth # 0
    ELSE IF r[i] = "(" THEN ParenScan(r, i + 1, depth + 1)
    ELSE IF r[i] = ")" THEN (depth = 0 \/ ParenScan(r, i + 1, depth - 1))
    ELSE ParenScan(r, i + 1, depth)

Unbalanced(r) == ParenScan(r, 1, 0)

\* C3: for a regex with unbalanced parentheses regex_to_nfa fails with an
\* explicit unbalanced-parentheses error: it returns no NFA and raises no
\* other fault.
C3_UnbalancedReported ==
    Unbalanced(regex) =>
      /\ ~NfaReturned
      /\ pc = "error" => err = "UnbalancedParentheses"

----------------------------------------------------------------------------
GrammarChars == Literals \cup {"(", ")", "|", "*"}

\* a '|' or '*' of a regex of the grammar's characters, with balanced
\* parentheses, that lacks an operand
Dangling(r) ==
    /\ \A i \in 1..Len(r) : r[i] \in GrammarChars
    /\ ~Unbalanced(r)
    /\ \E i \in 1..Len(r) :
          \/ /\ r[i] = "|"
             /\ \/ i = 1
                \/ i = Len(r)
                \/ r[i - 1] \in {"(", "|"}
                \/ r[i + 1] \in {")", "|", "*"}
          \/ /\ r[i] = "*"
             /\ (i = 1 \/ r[i - 1] \in {"(", "|"})

\* C4: for a regex with an operator that lacks an operand the postfix
\* conversion reports a dangling-operator error; no NFA is returned and the
\* failure is not the fault of a pop from an empty stack.
C4_DanglingReported ==
    Dangling(regex) =>
      /\ ~NfaReturned
      /\ pc = "error" => err = "DanglingOperator" /\ raisedIn = "to_postfix"

----------------------------------------------------------------------------
HasUnsupported(r) == \E i \in 1..Len(r) : r[i] \notin GrammarChars

\* C5: a regex with a character outside the grammar is rejected as
\* unsupported: no NFA is returned and the failure (of a regex whose
\* parentheses balance) names the character as unsupported.
C5_UnsupportedRejected ==
    HasUnsupported(regex) =>
      /\ ~NfaReturned
      /\ (pc = "error" /\ ~Unbalanced(regex)) => err = "UnsupportedSymbol"

----------------------------------------------------------------------------
\* C6: build_nfa returns an NFA only if its fragment stack holds exactly one
\* fragment after the last token; a postfix sequence of operands only that
\* leaves another number of fragments fails with a construction-invariant
\* violation.
C6_SingleFragment ==
    /\ NfaReturned => Len(frags) = 1
    /\ (/\ pc = "error"
        /\ raisedIn = "build_nfa"
        /\ \A i \in 1..Len(postfix) : postfix[i] \notin {".", "|", "*"})
          => err = "ConstructionInvariant"

----------------------------------------------------------------------------
\* C9: identifiers are allocated per compilation: a compilation starts with
\* both counters at zero, whatever was compiled before, and numbers its own
\* nodes from zero.
C9_AllocatorScoped ==
    /\ pc = "regex" => State_id_counter = 0 /\ DFAState_id_counter = 0
    /\ DOMAIN nodes = 0..(Cardinality(DOMAIN nodes) - 1)
    /\ DOMAIN dfa_objs = 0..(Cardinality(DOMAIN dfa_objs) - 1)

====
